---- MODULE Spec2Model ----
(***************************************************************************)
(* Model of app.py: the Streamlit form that turns six patient widgets     *)
(* into a biomarker feature vector (create_medical_feature_vector) and    *)
(* feeds it to the loaded scaler, PCA and SVM model.                      *)
(*                                                                         *)
(* Numbers.  Every value written into the feature vector is kept as an    *)
(* integer count of 10^-5 (Unit), which represents every constant of the  *)
(* interpolation tables and every value they produce at integer slider    *)
(* positions exactly.  Slider positions and ages are plain integers.      *)
(*                                                                         *)
(* Strings.  A feature name is a sequence of one-character strings, so    *)
(* that str.lower() and the substring test `in` are computed, not assumed.*)
(***************************************************************************)
EXTENDS Integers, Sequences, FiniteSets, TLC

VARIABLES
    feature_names,      \* joblib.load("feature_names.joblib")
    scaler_n,           \* number of features the loaded scaler was fitted on
    pca_n,              \* number of features the loaded PCA was fitted on
    age, sex,           \* number_input / selectbox
    tremor, voice_clarity, speech_stability, distortion,   \* sliders
    features,           \* result of create_medical_feature_vector(); <<>> = not bound in this run
    exc,                \* exception that ended this script run ("" = none)
    scaled,             \* scaler.transform(features)
    transformed,        \* pca.transform(scaled)
    prediction,         \* model.predict(transformed)[0]
    shown,              \* what the prediction card displays in this run
    calls,              \* the calls the prediction section made in this run, in order
    button,             \* st.button(...) of this run
    first               \* history variable: the widget values and the vector of one
                        \* earlier request, and whether a request with other widget
                        \* values has been made since

vars == <<feature_names, scaler_n, pca_n, age, sex, tremor, voice_clarity,
          speech_stability, distortion, features, exc, scaled, transformed,
          prediction, shown, calls, button, first>>

artifacts == <<feature_names, scaler_n, pca_n>>

widgets == <<age, sex, tremor, voice_clarity, speech_stability, distortion>>

outputs == <<features, exc, scaled, transformed, prediction, shown, calls>>

-----------------------------------------------------------------------------
(* Bounds of the model *)

\* longest schema built from SchemaPool
MaxSchemaLen == 2

\* how far the scaler's fitted feature count may be from len(feature_names)
MaxSkew == 1

\* how far outside 0..10 an unvalidated slider value is taken
Slack == 2

-----------------------------------------------------------------------------
(* Widget bounds and defaults *)

AgeMin == 20

AgeMax == 90

AgeDefault == 60

SexMale == 1

SexFemale == 0

SliderMin == 0

SliderMax == 10

SliderDefault == 5

\* one feature-vector unit is 10^-5
Unit == 10 ^ 5

-----------------------------------------------------------------------------
(* Python strings *)

UpperCase ==
    <<"A", "B", "C", "D", "E", "F", "G", "H", "I", "J", "K", "L", "M",
      "N", "O", "P", "Q", "R", "S", "T", "U", "V", "W", "X", "Y", "Z">>

LowerCase ==
    <<"a", "b", "c", "d", "e", "f", "g", "h", "i", "j", "k", "l", "m",
      "n", "o", "p", "q", "r", "s", "t", "u", "v", "w", "x", "y", "z">>

\* the lower-case letter of each upper-case letter
LowerOf ==
    [c \in {UpperCase[k] : k \in 1..Len(UpperCase)} |->
        LowerCase[CHOOSE k \in 1..Len(UpperCase) : UpperCase[k] = c]]

\* str.lower() on one character
char_lower(c) == IF c \in DOMAIN LowerOf THEN LowerOf[c] ELSE c

\* name.lower()
str_lower(s) == [k \in 1..Len(s) |-> char_lower(s[k])]

\* sub in s
str_in(sub, s) ==
    \E k \in 0..(Len(s) - Len(sub)) : SubSeq(s, k + 1, k + Len(sub)) = sub

-----------------------------------------------------------------------------
(* Feature names used as schema entries *)

\* "age"
N_age ==
    <<"a", "g", "e">>

\* "AGE"
N_AGE ==
    <<"A", "G", "E">>

\* "sex"
N_sex ==
    <<"s", "e", "x">>

\* "test_time"
N_test_time ==
    <<"t", "e", "s", "t", "_", "t", "i", "m", "e">>

\* "MDVP:Jitter(%)"
N_MDVP_Jitter_pct ==
    <<"M", "D", "V", "P", ":", "J", "i", "t", "t", "e", "r", "(", "%", ")">>

\* "MDVP:Shimmer"
N_MDVP_Shimmer ==
    <<"M", "D", "V", "P", ":", "S", "h", "i", "m", "m", "e", "r">>

\* "NHR"
N_NHR ==
    <<"N", "H", "R">>

\* "HNR"
N_HNR ==
    <<"H", "N", "R">>

\* "RPDE"
N_RPDE ==
    <<"R", "P", "D", "E">>

\* "DFA"
N_DFA ==
    <<"D", "F", "A">>

\* "PPE"
N_PPE ==
    <<"P", "P", "E">>

\* "rpde"
N_rpde ==
    <<"r", "p", "d", "e">>

\* "Dfa"
N_Dfa ==
    <<"D", "f", "a">>

\* "ppe"
N_ppe ==
    <<"p", "p", "e">>

\* "nhr"
N_nhr ==
    <<"n", "h", "r">>

\* "average_jitter"
N_average_jitter ==
    <<"a", "v", "e", "r", "a", "g", "e", "_", "j", "i", "t", "t", "e", "r">>

AllNames ==
    {N_age, N_AGE, N_sex, N_test_time, N_MDVP_Jitter_pct, N_MDVP_Shimmer,
     N_NHR, N_HNR, N_RPDE, N_DFA, N_PPE, N_rpde, N_Dfa, N_ppe, N_nhr,
     N_average_jitter}

\* names from which the schemas of more than one entry are built
SchemaPool ==
    {N_age, N_sex, N_MDVP_Jitter_pct, N_HNR, N_PPE, N_rpde, N_test_time,
     N_average_jitter}

\* the schema of the end-to-end scenario
ScenarioSchema == <<N_age, N_sex, N_MDVP_Jitter_pct, N_HNR, N_DFA>>

\* a schema in the column order of the UCI telemonitoring data
UCISchema ==
    <<N_age, N_sex, N_test_time, N_MDVP_Jitter_pct, N_MDVP_Shimmer,
      N_NHR, N_HNR, N_RPDE, N_DFA, N_PPE>>

SeqsUpTo(S, n) == UNION {[1..k -> S] : k \in 0..n}

\* feature_names.joblib as the synthesis function may meet it
Schemas ==
    SeqsUpTo(SchemaPool, MaxSchemaLen)
        \cup {<<n>> : n \in AllNames}
        \cup {ScenarioSchema}

\* feature_names.joblib as the running form is started with
ProgramSchemas == {<<>>, ScenarioSchema, UCISchema}

-----------------------------------------------------------------------------
(* numpy *)

\* np.zeros(n)
np_zeros(n) == [i \in 1..n |-> 0]

\* binary_search_with_guess of np.interp: 0 when key < xp[first], Len(xp) + 1
\* when key > xp[last], else the j with xp[j] <= key < xp[j+1] (j = last when
\* key = xp[last])
binary_search(key, xp) ==
    IF key < xp[1] THEN 0
    ELSE IF key > xp[Len(xp)] THEN Len(xp) + 1
    ELSE CHOOSE j \in 1..Len(xp) :
            /\ xp[j] <= key
            /\ (j = Len(xp) \/ key < xp[j + 1])

\* np.interp following the first and last segment beyond xp (no clamping)
np_interp_extrapolating(x, xp, fp) ==
    LET j == IF x < xp[1] THEN 1
             ELSE IF x >= xp[Len(xp)] THEN Len(xp) - 1
             ELSE binary_search(x, xp)
        slope == (fp[j + 1] - fp[j]) \div (xp[j + 1] - xp[j])
    IN  slope * (x - xp[j]) + fp[j]

\* np.interp(x, xp, fp) for increasing xp
np_interp(x, xp, fp) ==
    LET j == binary_search(x, xp)
    IN  IF j = 0 THEN fp[1]
        ELSE IF j = Len(xp) + 1 THEN fp[Len(fp)]
        ELSE IF j = Len(xp) THEN fp[j]
        ELSE IF xp[j] = x THEN fp[j]
        ELSE LET slope == (fp[j + 1] - fp[j]) \div (xp[j + 1] - xp[j])
             IN  slope * (x - xp[j]) + fp[j]

\* a.reshape(rows, -1) refusing an array of size 0
np_reshape_nonempty(a, rows) ==
    IF rows = 0 \/ Len(a) = 0 \/ Len(a) % rows # 0
    THEN [exc |-> "ValueError", value |-> <<>>]
    ELSE [exc |-> "",
          value |-> [r \in 1..rows |->
                        SubSeq(a, (r - 1) * (Len(a) \div rows) + 1,
                                  r * (Len(a) \div rows))]]

\* a.reshape(rows, -1): the unknown dimension is len(a) / rows, and numpy
\* raises ValueError when rows is 0 or does not divide len(a)
np_reshape(a, rows) ==
    IF rows = 0 \/ Len(a) % rows # 0
    THEN [exc |-> "ValueError", value |-> <<>>]
    ELSE [exc |-> "",
          value |-> [r \in 1..rows |->
                        SubSeq(a, (r - 1) * (Len(a) \div rows) + 1,
                                  r * (Len(a) \div rows))]]

-----------------------------------------------------------------------------
(* Feature mapping *)

\* the widget values a script run reads
Inputs ==
    [age |-> age, sex |-> sex, tremor |-> tremor,
     voice_clarity |-> voice_clarity,
     speech_stability |-> speech_stability, distortion |-> distortion]

\* Branch with the jitter test moved in front of the age test
BranchJitterFirst(name) ==
    IF str_in(<<"j", "i", "t", "t", "e", "r">>, str_lower(name)) THEN 3
    ELSE IF str_in(<<"a", "g", "e">>, str_lower(name)) THEN 1
    ELSE IF str_in(<<"s", "e", "x">>, str_lower(name)) THEN 2
    ELSE IF str_in(<<"s", "h", "i", "m", "m", "e", "r">>, str_lower(name)) THEN 4
    ELSE IF str_in(<<"N", "H", "R">>, name) THEN 5
    ELSE IF str_in(<<"H", "N", "R">>, name) THEN 6
    ELSE IF str_in(<<"R", "P", "D", "E">>, name) THEN 7
    ELSE IF str_in(<<"D", "F", "A">>, name) THEN 8
    ELSE IF str_in(<<"P", "P", "E">>, name) THEN 9
    ELSE 10

\* Branch with the RPDE, DFA and PPE tests made on name.lower()
BranchLowerAcronyms(name) ==
    IF str_in(<<"a", "g", "e">>, str_lower(name)) THEN 1
    ELSE IF str_in(<<"s", "e", "x">>, str_lower(name)) THEN 2
    ELSE IF str_in(<<"j", "i", "t", "t", "e", "r">>, str_lower(name)) THEN 3
    ELSE IF str_in(<<"s", "h", "i", "m", "m", "e", "r">>, str_lower(name)) THEN 4
    ELSE IF str_in(<<"N", "H", "R">>, name) THEN 5
    ELSE IF str_in(<<"H", "N", "R">>, name) THEN 6
    ELSE IF str_in(<<"r", "p", "d", "e">>, str_lower(name)) THEN 7
    ELSE IF str_in(<<"d", "f", "a">>, str_lower(name)) THEN 8
    ELSE IF str_in(<<"p", "p", "e">>, str_lower(name)) THEN 9
    ELSE 10

\* the conditions of the if/elif chain of the loop body, in order: the number
\* of the first branch whose condition `name` meets (10 = the final else)
Branch(name) ==
    IF str_in(<<"a", "g", "e">>, str_lower(name)) THEN 1
    ELSE IF str_in(<<"s", "e", "x">>, str_lower(name)) THEN 2
    ELSE IF str_in(<<"j", "i", "t", "t", "e", "r">>, str_lower(name)) THEN 3
    ELSE IF str_in(<<"s", "h", "i", "m", "m", "e", "r">>, str_lower(name)) THEN 4
    ELSE IF str_in(<<"N", "H", "R">>, name) THEN 5
    ELSE IF str_in(<<"H", "N", "R">>, name) THEN 6
    ELSE IF str_in(<<"R", "P", "D", "E">>, name) THEN 7
    ELSE IF str_in(<<"D", "F", "A">>, name) THEN 8
    ELSE IF str_in(<<"P", "P", "E">>, name) THEN 9
    ELSE 10

\* BranchValue with the upper jitter bound written 0.10 and the PPE domain
\* written [0, 10]
BranchValueTypo(b, in) ==
    CASE b = 1 -> in.age * Unit
      [] b = 2 -> in.sex * Unit
      [] b = 3 -> np_interp(in.distortion, <<0, 10>>, <<10, 10000>>)
      [] b = 4 -> np_interp(in.distortion, <<0, 10>>, <<1000, 20000>>)
      [] b = 5 -> np_interp(10 - in.voice_clarity, <<0, 10>>, <<1000, 30000>>)
      [] b = 6 -> np_interp(in.voice_clarity, <<0, 10>>, <<500000, 3500000>>)
      [] b = 7 -> np_interp(10 - in.speech_stability, <<0, 10>>, <<30000, 65000>>)
      [] b = 8 -> np_interp(10 - in.tremor, <<0, 10>>, <<50000, 130000>>)
      [] b = 9 -> np_interp(in.distortion + (10 - in.speech_stability),
                            <<0, 10>>, <<2000, 30000>>)
      [] OTHER -> np_interp(in.distortion, <<0, 10>>, <<10000, 100000>>)

\* BranchValue with the HNR branch reading 10 - voice_clarity, as the NHR
\* branch above it does
BranchValueHNRReversed(b, in) ==
    CASE b = 1 -> in.age * Unit
      [] b = 2 -> in.sex * Unit
      [] b = 3 -> np_interp(in.distortion, <<0, 10>>, <<10, 1000>>)
      [] b = 4 -> np_interp(in.distortion, <<0, 10>>, <<1000, 20000>>)
      [] b = 5 -> np_interp(10 - in.voice_clarity, <<0, 10>>, <<1000, 30000>>)
      [] b = 6 -> np_interp(10 - in.voice_clarity, <<0, 10>>, <<500000, 3500000>>)
      [] b = 7 -> np_interp(10 - in.speech_stability, <<0, 10>>, <<30000, 65000>>)
      [] b = 8 -> np_interp(10 - in.tremor, <<0, 10>>, <<50000, 130000>>)
      [] b = 9 -> np_interp(in.distortion + (10 - in.speech_stability),
                            <<0, 20>>, <<2000, 30000>>)
      [] OTHER -> np_interp(in.distortion, <<0, 10>>, <<10000, 100000>>)

\* the assignment of branch b, for widget values `in`
BranchValue(b, in) ==
    CASE b = 1 -> in.age * Unit
      [] b = 2 -> in.sex * Unit
      \* 0.0001 - 0.010
      [] b = 3 -> np_interp(in.distortion, <<0, 10>>, <<10, 1000>>)
      \* 0.01 - 0.2
      [] b = 4 -> np_interp(in.distortion, <<0, 10>>, <<1000, 20000>>)
      \* 0.01 - 0.30
      [] b = 5 -> np_interp(10 - in.voice_clarity, <<0, 10>>, <<1000, 30000>>)
      \* 5 - 35
      [] b = 6 -> np_interp(in.voice_clarity, <<0, 10>>, <<500000, 3500000>>)
      \* 0.30 - 0.65
      [] b = 7 -> np_interp(10 - in.speech_stability, <<0, 10>>, <<30000, 65000>>)
      \* 0.50 - 1.30
      [] b = 8 -> np_interp(10 - in.tremor, <<0, 10>>, <<50000, 130000>>)
      \* 0.02 - 0.30
      [] b = 9 -> np_interp(in.distortion + (10 - in.speech_stability),
                            <<0, 20>>, <<2000, 30000>>)
      \* 0.1 - 1.0
      [] OTHER -> np_interp(in.distortion, <<0, 10>>, <<10000, 100000>>)

\* the value the loop body stores at a position whose feature name is `name`
FeatureValue(name, in) == BranchValue(Branch(name), in)

\* create_medical_feature_vector filling one position per distinct name
create_medical_feature_vector_by_name ==
    LET kept == {i \in 1..Len(feature_names) :
                    \A j \in 1..(i - 1) : feature_names[j] # feature_names[i]}
        pos(k) == CHOOSE i \in kept : Cardinality({j \in kept : j <= i}) = k
        filled == [k \in 1..Cardinality(kept) |->
                      FeatureValue(feature_names[pos(k)], Inputs)]
    IN  np_reshape(filled, 1)

\* create_medical_feature_vector(): [exc, value], value the 1 x n array
create_medical_feature_vector ==
    LET zeros == np_zeros(Len(feature_names))
        filled == [i \in 1..Len(zeros) |-> FeatureValue(feature_names[i], Inputs)]
    IN  np_reshape(filled, 1)

-----------------------------------------------------------------------------
(* The synthesis function on its own: inputs drawn at the start, one call *)

\* slider 4-tuples <<tremor, voice_clarity, speech_stability, distortion>>
\* over lo..hi in which at most two sliders are off their default; every rule
\* reads at most two sliders, so each rule sees its whole input domain
SliderPairs(lo, hi) ==
    {s \in (lo..hi) \X (lo..hi) \X (lo..hi) \X (lo..hi) :
        Cardinality({k \in 1..4 : s[k] # SliderDefault}) <= 2}

\* slider 4-tuples at the ends of the sliders
SliderEnds == {SliderMin, SliderMax} \X {SliderMin, SliderMax}
                \X {SliderMin, SliderMax} \X {SliderMin, SliderMax}

\* the slider tuples tried with schema `names`
SlidersFor(names, lo, hi) ==
    IF Len(names) <= 1 \/ names = ScenarioSchema
    THEN SliderPairs(lo, hi)
    ELSE SliderEnds

InitOutputs ==
    /\ features = <<>>
    /\ exc = ""
    /\ scaled = <<>>
    /\ transformed = <<>>
    /\ prediction = <<>>
    /\ shown = <<>>
    /\ calls = <<>>
    /\ button = FALSE
    /\ first = <<>>

InitFunction(ages, lo, hi) ==
    /\ feature_names \in Schemas
    /\ scaler_n = Len(feature_names)
    /\ pca_n = Len(feature_names)
    /\ age \in ages
    /\ sex \in {SexFemale, SexMale}
    /\ \E s \in SlidersFor(feature_names, lo, hi) :
          /\ tremor = s[1]
          /\ voice_clarity = s[2]
          /\ speech_stability = s[3]
          /\ distortion = s[4]
    /\ InitOutputs

\* valid SliderInputs
InitSynth == InitFunction({AgeMin, AgeDefault, AgeMax}, SliderMin, SliderMax)

\* one call of create_medical_feature_vector()
Synthesize ==
    /\ features = <<>>
    /\ exc = ""
    /\ LET r == create_medical_feature_vector
       IN  /\ features' = r.value
           /\ exc' = r.exc
    /\ UNCHANGED <<artifacts, widgets, scaled, transformed, prediction,
                   shown, calls, button, first>>

NextSynth == Synthesize

SpecSynth == InitSynth /\ [][NextSynth]_vars

\* the same call with slider values that no widget validated
InitClamp == InitFunction({AgeDefault}, SliderMin - Slack, SliderMax + Slack)

SpecClamp == InitClamp /\ [][NextSynth]_vars

-----------------------------------------------------------------------------
(* The loaded collaborators.  Their results are opaque: a result is the   *)
(* tuple of the call that made it and the array it was made from.         *)

\* scaler.transform(X): a fitted scikit-learn transformer raises ValueError
\* when X.shape[1] is not the feature count it was fitted on
scaler_transform(X) ==
    IF Len(X[1]) # scaler_n
    THEN [exc |-> "ValueError", value |-> <<>>]
    ELSE [exc |-> "", value |-> <<"scaler.transform", X, Len(X[1])>>]

\* pca.transform(X), with the same check against its own fitted count
pca_transform(X) ==
    IF X[3] # pca_n
    THEN [exc |-> "ValueError", value |-> <<>>]
    ELSE [exc |-> "", value |-> <<"pca.transform", X>>]

\* model.predict(X)[0]
model_predict(X) == [exc |-> "", value |-> <<"model.predict", X>>]

-----------------------------------------------------------------------------
(* The running form *)

\* what a script run leaves when the button was not pressed
NoRequest ==
    [features |-> <<>>, exc |-> "", scaled |-> <<>>, transformed |-> <<>>,
     prediction |-> <<>>, shown |-> <<>>, calls |-> <<>>]

\* a run ended by an uncaught exception: Streamlit shows the exception
Raised(done, e) == [done EXCEPT !.exc = e, !.shown = <<"exception", e>>]

\* PredictionSection with the vector cut or repeated to the scaler's feature
\* count (np.resize) before it is standardized
PredictionSectionResizing ==
    LET f == create_medical_feature_vector
        fit == << [i \in 1..scaler_n |->
                      IF Len(f.value[1]) = 0 THEN 0
                      ELSE f.value[1][((i - 1) % Len(f.value[1])) + 1]] >>
        s == scaler_transform(fit)
        t == pca_transform(s.value)
        p == model_predict(t.value)
        c == <<<<"create_medical_feature_vector">>, <<"scaler.transform", fit>>>>
    IN  IF t.exc # ""
        THEN Raised([NoRequest EXCEPT
                        !.features = fit, !.scaled = s.value,
                        !.calls = Append(c, <<"pca.transform", s.value>>)],
                    t.exc)
        ELSE [NoRequest EXCEPT
                 !.features = fit, !.scaled = s.value,
                 !.transformed = t.value, !.prediction = p.value,
                 !.calls = c \o <<<<"pca.transform", s.value>>,
                                  <<"model.predict", t.value>>,
                                  <<"st.success", p.value>>>>,
                 !.shown = <<"success", p.value>>]

\* PredictionSection with the projection applied before the standardization
PredictionSectionPcaFirst ==
    LET f == create_medical_feature_vector
        t == <<"pca.transform", f.value>>
        s == <<"scaler.transform", t, Len(f.value[1])>>
        p == model_predict(s)
    IN  [NoRequest EXCEPT
            !.features = f.value, !.scaled = s,
            !.transformed = t, !.prediction = p.value,
            !.calls = <<<<"create_medical_feature_vector">>,
                        <<"pca.transform", f.value>>,
                        <<"scaler.transform", t>>,
                        <<"model.predict", s>>,
                        <<"st.success", p.value>>>>,
            !.shown = <<"success", p.value>>]

\* the body of `if st.button(...)`: the statements in order, each stopping
\* the run when it raises
PredictionSection ==
    LET f == create_medical_feature_vector
    IN  IF f.exc # ""
        THEN Raised([NoRequest EXCEPT
                        !.calls = <<<<"create_medical_feature_vector">>>>], f.exc)
        ELSE
    LET s1 == [NoRequest EXCEPT
                  !.features = f.value,
                  !.calls = <<<<"create_medical_feature_vector">>,
                              <<"scaler.transform", f.value>>>>]
        s  == scaler_transform(f.value)
    IN  IF s.exc # "" THEN Raised(s1, s.exc) ELSE
    LET s2 == [s1 EXCEPT
                  !.scaled = s.value,
                  !.calls = Append(@, <<"pca.transform", s.value>>)]
        t  == pca_transform(s.value)
    IN  IF t.exc # "" THEN Raised(s2, t.exc) ELSE
    LET s3 == [s2 EXCEPT
                  !.transformed = t.value,
                  !.calls = Append(@, <<"model.predict", t.value>>)]
        p  == model_predict(t.value)
    IN  IF p.exc # "" THEN Raised(s3, p.exc) ELSE
        [s3 EXCEPT !.prediction = p.value,
                   !.calls = Append(@, <<"st.success", p.value>>),
                   !.shown = <<"success", p.value>>]

\* the script run's effect on the names it binds
Run(r) ==
    /\ features' = r.features
    /\ exc' = r.exc
    /\ scaled' = r.scaled
    /\ transformed' = r.transformed
    /\ prediction' = r.prediction
    /\ shown' = r.shown
    /\ calls' = r.calls

\* values the operator of the form enters
AgeInputs == {AgeMin}

SexInputs == {SexFemale, SexMale}

SliderInputs == {SliderMax}

Init ==
    /\ feature_names \in ProgramSchemas
    /\ scaler_n \in {n \in 0..(Len(feature_names) + MaxSkew) :
                        Len(feature_names) - n <= MaxSkew}
    /\ pca_n \in IF scaler_n = Len(feature_names)
                THEN {scaler_n, scaler_n + 1}
                ELSE {scaler_n}
    /\ age = AgeDefault
    /\ sex = SexMale
    /\ tremor = SliderDefault
    /\ voice_clarity = SliderDefault
    /\ speech_stability = SliderDefault
    /\ distortion = SliderDefault
    /\ InitOutputs

\* a widget change reruns the script with st.button(...) False
Rerun ==
    /\ button' = FALSE
    /\ Run(NoRequest)
    /\ UNCHANGED <<artifacts, first>>

SetAge ==
    /\ \E v \in AgeInputs \cup {AgeDefault} : v # age /\ age' = v
    /\ UNCHANGED <<sex, tremor, voice_clarity, speech_stability, distortion>>
    /\ Rerun

SetSex ==
    /\ \E v \in SexInputs : v # sex /\ sex' = v
    /\ UNCHANGED <<age, tremor, voice_clarity, speech_stability, distortion>>
    /\ Rerun

SetTremor ==
    /\ \E v \in SliderInputs \cup {SliderDefault} : v # tremor /\ tremor' = v
    /\ UNCHANGED <<age, sex, voice_clarity, speech_stability, distortion>>
    /\ Rerun

SetVoiceClarity ==
    /\ \E v \in SliderInputs \cup {SliderDefault} :
          v # voice_clarity /\ voice_clarity' = v
    /\ UNCHANGED <<age, sex, tremor, speech_stability, distortion>>
    /\ Rerun

SetSpeechStability ==
    /\ \E v \in SliderInputs \cup {SliderDefault} :
          v # speech_stability /\ speech_stability' = v
    /\ UNCHANGED <<age, sex, tremor, voice_clarity, distortion>>
    /\ Rerun

SetDistortion ==
    /\ \E v \in SliderInputs \cup {SliderDefault} :
          v # distortion /\ distortion' = v
    /\ UNCHANGED <<age, sex, tremor, voice_clarity, speech_stability>>
    /\ Rerun

\* ClickPredict with a loop that consumes the schema (feature_names.pop(0))
\* once the vector is built
ClickPredictConsuming ==
    /\ button' = TRUE
    /\ LET r == PredictionSection IN Run(r)
    /\ feature_names' = IF feature_names = <<>> THEN <<>> ELSE Tail(feature_names)
    /\ \/ /\ first = <<>>
          /\ first' = first
       \/ /\ first = <<>>
          /\ features' # <<>>
          /\ first' = <<widgets, features', FALSE>>
       \/ /\ first # <<>>
          /\ first' = IF first[1] # widgets THEN [first EXCEPT ![3] = TRUE]
                                            ELSE first
    /\ UNCHANGED <<scaler_n, pca_n, widgets>>

\* pressing "Get Prediction" reruns the script with st.button(...) True
ClickPredict ==
    /\ button' = TRUE
    /\ LET r == PredictionSection IN Run(r)
    /\ \/ /\ first = <<>>
          /\ first' = first
       \/ /\ first = <<>>
          /\ features' # <<>>
          /\ first' = <<widgets, features', FALSE>>
       \/ /\ first # <<>>
          /\ first' = IF first[1] # widgets THEN [first EXCEPT ![3] = TRUE]
                                            ELSE first
    /\ UNCHANGED <<artifacts, widgets>>

Next ==
    \/ SetAge
    \/ SetSex
    \/ SetTremor
    \/ SetVoiceClarity
    \/ SetSpeechStability
    \/ SetDistortion
    \/ ClickPredict

Spec == Init /\ [][Next]_vars

-----------------------------------------------------------------------------
(* The mapping as the specification words it *)

\* create_medical_feature_vector() has been called and has returned
Called == features # <<>> /\ exc = ""

\* create_medical_feature_vector() has been called
Returned == features # <<>> \/ exc # ""

\* x held to [lo, hi]
Clamp(x, lo, hi) == IF x < lo THEN lo ELSE IF x > hi THEN hi ELSE x

\* "interpolated from x, of domain [xmin, xmax], into [lo, hi]"
Lerp(x, xmin, xmax, lo, hi) ==
    lo + ((Clamp(x, xmin, xmax) - xmin) * (hi - lo)) \div (xmax - xmin)

\* the predicates of the table, by priority, as the code spells them
Predicate(k, name) ==
    CASE k = 1 -> str_in(<<"a", "g", "e">>, str_lower(name))
      [] k = 2 -> str_in(<<"s", "e", "x">>, str_lower(name))
      [] k = 3 -> str_in(<<"j", "i", "t", "t", "e", "r">>, str_lower(name))
      [] k = 4 -> str_in(<<"s", "h", "i", "m", "m", "e", "r">>, str_lower(name))
      [] k = 5 -> str_in(<<"N", "H", "R">>, name)
      [] k = 6 -> str_in(<<"H", "N", "R">>, name)
      [] k = 7 -> str_in(<<"R", "P", "D", "E">>, name)
      [] k = 8 -> str_in(<<"D", "F", "A">>, name)
      [] k = 9 -> str_in(<<"P", "P", "E">>, name)

\* the first predicate `name` meets; 10 is the fallback
FirstMatch(name) ==
    IF \E k \in 1..9 : Predicate(k, name)
    THEN CHOOSE k \in 1..9 :
            Predicate(k, name) /\ \A m \in 1..(k - 1) : ~Predicate(m, name)
    ELSE 10

\* the slider quantity rule k interpolates from
RuleInput(k, in) ==
    CASE k \in {3, 4, 10} -> in.distortion
      [] k = 5 -> 10 - in.voice_clarity
      [] k = 6 -> in.voice_clarity
      [] k = 7 -> 10 - in.speech_stability
      [] k = 8 -> 10 - in.tremor
      [] k = 9 -> in.distortion + (10 - in.speech_stability)

\* the domain <<xmin, xmax>> and the range <<lo, hi>> of rule k
RuleDomain(k) == IF k = 9 THEN <<0, 20>> ELSE <<0, 10>>

RuleRange(k) ==
    CASE k = 3 -> <<10, 1000>>
      [] k = 4 -> <<1000, 20000>>
      [] k = 5 -> <<1000, 30000>>
      [] k = 6 -> <<500000, 3500000>>
      [] k = 7 -> <<30000, 65000>>
      [] k = 8 -> <<50000, 130000>>
      [] k = 9 -> <<2000, 30000>>
      [] k = 10 -> <<10000, 100000>>

\* the value rule k gives for widget values `in`
RuleValue(k, in) ==
    CASE k = 1 -> in.age * Unit
      [] k = 2 -> in.sex * Unit
      [] OTHER -> Lerp(RuleInput(k, in), RuleDomain(k)[1], RuleDomain(k)[2],
                       RuleRange(k)[1], RuleRange(k)[2])

\* the widget values of the end-to-end scenario and the vector it expects:
\* [60, 1, 0.00505, 20, 0.90]
ScenarioWidgets == <<60, 1, 5, 5, 5, 5>>

ScenarioVector == <<6000000, 100000, 505, 2000000, 90000>>

-----------------------------------------------------------------------------
(* Claims about the synthesis function (SpecSynth) *)

\* C1: the returned vector has exactly one value per schema entry, and the
\* value at position i is the one computed from the name at schema position
\* i: nothing is reordered, dropped or added, whatever the schema's length
\* and whether or not names repeat.
C1_OneValuePerSchemaEntry ==
    Returned =>
        /\ exc = ""
        /\ Len(features) = 1
        /\ Len(features[1]) = Len(feature_names)
        /\ \A i \in 1..Len(feature_names) :
              features[1][i] = FeatureValue(feature_names[i], Inputs)

\* C1 witness: a schema that names the same feature twice has been mapped
C1_Witness ==
    /\ Called
    /\ Len(feature_names) = 2
    /\ feature_names[1] = feature_names[2]
    /\ Len(features[1]) = 2
    /\ features[1][1] = features[1][2]

C3_AcronymsInAnyCase ==
    Called =>
        \A i \in 1..Len(feature_names) :
            LET name == feature_names[i]
                low  == str_lower(name)
            IN  (\A k \in 1..6 : ~Predicate(k, name)) =>
                    /\ str_in(<<"r", "p", "d", "e">>, low)
                          => features[1][i] = RuleValue(7, Inputs)
                    /\ (~str_in(<<"r", "p", "d", "e">>, low)
                            /\ str_in(<<"d", "f", "a">>, low))
                          => features[1][i] = RuleValue(8, Inputs)
                    /\ (~str_in(<<"r", "p", "d", "e">>, low)
                            /\ ~str_in(<<"d", "f", "a">>, low)
                            /\ str_in(<<"p", "p", "e">>, low))
                          => features[1][i] = RuleValue(9, Inputs)

\* C3 amended: age, sex, jitter and shimmer are matched on the lower-cased
\* name; NHR, HNR, RPDE, DFA and PPE are matched on the name as written.  A
\* name that holds "RPDE", "DFA" or "PPE" in upper case (and meets no earlier
\* predicate) receives that rule's value; a name that holds them only in
\* another letter case receives the fallback value.
C3_AcronymsAsWritten ==
    Called =>
        \A i \in 1..Len(feature_names) :
            LET name == feature_names[i]
                v    == features[1][i]
            IN  /\ str_in(<<"a", "g", "e">>, str_lower(name))
                      => v = RuleValue(1, Inputs)
                /\ (\A k \in 1..6 : ~Predicate(k, name)) =>
                      /\ str_in(<<"R", "P", "D", "E">>, name)
                            => v = RuleValue(7, Inputs)
                      /\ (~str_in(<<"R", "P", "D", "E">>, name)
                              /\ str_in(<<"D", "F", "A">>, name))
                            => v = RuleValue(8, Inputs)
                      /\ (~str_in(<<"R", "P", "D", "E">>, name)
                              /\ ~str_in(<<"D", "F", "A">>, name)
                              /\ str_in(<<"P", "P", "E">>, name))
                            => v = RuleValue(9, Inputs)
                      /\ (~str_in(<<"R", "P", "D", "E">>, name)
                              /\ ~str_in(<<"D", "F", "A">>, name)
                              /\ ~str_in(<<"P", "P", "E">>, name))
                            => v = RuleValue(10, Inputs)

\* C3 witness: the name "rpde" has been given the fallback value where the
\* RPDE rule would have given another one
C3_Witness ==
    /\ Called
    /\ feature_names = <<N_rpde>>
    /\ features[1][1] = RuleValue(10, Inputs)
    /\ features[1][1] # RuleValue(7, Inputs)

C6_HNRMonotone ==
    Called =>
        \A i \in 1..Len(feature_names) :
            feature_names[i] = N_HNR =>
                \A v \in voice_clarity..SliderMax :
                    features[1][i] <=
                        FeatureValue(N_HNR, [Inputs EXCEPT !.voice_clarity = v])

\* C6 witness: "HNR" has been mapped at a voice clarity from which a higher
\* clarity gives a strictly higher value
C6_Witness ==
    /\ Called
    /\ feature_names = <<N_HNR>>
    /\ voice_clarity = 3
    /\ features[1][1] <
          FeatureValue(N_HNR, [Inputs EXCEPT !.voice_clarity = 7])

\* C7: with an empty schema the call raises nothing and returns an array
\* with no feature values.
C7_EmptySchema ==
    (Returned /\ feature_names = <<>>) =>
        /\ exc = ""
        /\ features = << <<>> >>

\* C7 witness: the call has returned for the empty schema
C7_Witness ==
    /\ Called
    /\ feature_names = <<>>
    /\ Len(features) = 1
    /\ Len(features[1]) = 0

-----------------------------------------------------------------------------
(* Claims about slider values outside their domain (SpecClamp) *)

-----------------------------------------------------------------------------
(* Claims about the running form (Spec) *)

\* C5: a request's vector depends on nothing but the widget values and the
\* schema: whatever requests came before, a request made with the widget
\* values of an earlier request returns that request's vector; and no step
\* changes the schema.
C5_NoHiddenState ==
    [][ /\ feature_names' = feature_names
        /\ (features' # <<>> /\ first' # <<>> /\ first'[1] = widgets')
              => features' = first'[2] ]_vars

\* C5 witness: a request has been answered with the widget values of an
\* earlier request, after a request with other widget values in between
C5_Witness ==
    /\ button
    /\ features # <<>>
    /\ first # <<>>
    /\ first[1] = widgets
    /\ first[3]
    /\ features = first[2]

Order ==
    <<"create_medical_feature_vector", "scaler.transform", "pca.transform",
      "model.predict", "st.success">>

\* C10: the calls of a request are create_medical_feature_vector,
\* scaler.transform, pca.transform, model.predict, st.success, in that order
\* and each once (a run that an exception ends has made the first of them);
\* each is given the result of the one before it; a score is shown only after
\* model.predict has returned; and a run without the button makes none.
C10_FixedOrder ==
    /\ ~button => (calls = <<>> /\ shown = <<>> /\ features = <<>>
                      /\ scaled = <<>> /\ transformed = <<>>
                      /\ prediction = <<>>)
    /\ button => Len(calls) >= 1
    /\ Len(calls) <= Len(Order)
    /\ \A k \in 1..Len(calls) : calls[k][1] = Order[k]
    /\ IF Len(calls) >= 2
       THEN features # <<>> /\ calls[2][2] = features
       ELSE features = <<>>
    /\ IF Len(calls) >= 3
       THEN /\ calls[3][2] = scaled
            /\ scaled = <<"scaler.transform", features, Len(features[1])>>
       ELSE scaled = <<>>
    /\ IF Len(calls) >= 4
       THEN /\ calls[4][2] = transformed
            /\ transformed = <<"pca.transform", scaled>>
       ELSE transformed = <<>>
    /\ IF Len(calls) >= 5
       THEN /\ calls[5][2] = prediction
            /\ prediction = <<"model.predict", transformed>>
            /\ shown = <<"success", prediction>>
            /\ exc = ""
       ELSE /\ prediction = <<>>
            /\ (shown = <<>> \/ shown[1] = "exception")
    /\ (button /\ exc = "") => Len(calls) = Len(Order)

\* C10 witness: a request on a schema with entries has run to the display
\* of its score
C10_Witness ==
    /\ button
    /\ Len(feature_names) > 0
    /\ Len(calls) = 5
    /\ shown = <<"success", prediction>>

====
